---- MODULE Spec2Model ----
(***************************************************************************)
(* Model of tools/gen_synthetic.py: generate_ohlcv, the synthetic daily    *)
(* OHLCV bar generator, and the way __main__ calls it.                     *)
(*                                                                         *)
(* Python floats are modelled as exact rationals <<num, den>> (den > 0,    *)
(* lowest terms).  Every input value below is a dyadic rational with a     *)
(* short mantissa, so that the float products and sums the code computes   *)
(* on them are exact and the rational model computes the same values.      *)
(* round(x, 2) is round-half-to-even on the exact value.                   *)
(***************************************************************************)
EXTENDS Integers, Sequences, FiniteSets, TLC

---------------------------------------------------------------------------
(* Bounds of the model *)

\* largest n_rows in the main specification
MaxRows == 2

\* n_rows of the long, noise-free runs of the calendar specification
MaxDays == 430

\* most calls of generate_ohlcv a run of the two-call specification makes
MaxCalls == 2

---------------------------------------------------------------------------
(* Float arithmetic, as exact rationals *)

IAbs(x) == IF x < 0 THEN -x ELSE x

RECURSIVE GCD(_, _)
GCD(a, b) == IF b = 0 THEN a ELSE GCD(b, a % b)

Norm(n, d) == LET g == GCD(IAbs(n), d) IN <<n \div g, d \div g>>

Zero == <<0, 1>>
One == <<1, 1>>
FromInt(k) == <<k, 1>>

RMul(a, b) == LET g1 == GCD(IAbs(a[1]), b[2])
                  g2 == GCD(IAbs(b[1]), a[2])
              IN  <<(a[1] \div g1) * (b[1] \div g2), (a[2] \div g2) * (b[2] \div g1)>>
RAdd(a, b) == Norm(a[1] * b[2] + b[1] * a[2], a[2] * b[2])
RNeg(a) == <<-a[1], a[2]>>
RSub(a, b) == RAdd(a, RNeg(b))
RLe(a, b) == a[1] * b[2] <= b[1] * a[2]
RLt(a, b) == a[1] * b[2] < b[1] * a[2]
RMax(a, b) == IF RLe(b, a) THEN a ELSE b
RMin(a, b) == IF RLe(a, b) THEN a ELSE b
RAbs(a) == <<IAbs(a[1]), a[2]>>

\* round-half-to-even of n/d to an integer (d > 0)
RoundHalfEven(n, d) ==
    LET q == n \div d
        r == n % d
    IN  IF 2 * r < d THEN q
        ELSE IF 2 * r > d THEN q + 1
        ELSE IF q % 2 = 0 THEN q ELSE q + 1

\* round(x, 2)
Round2(x) == LET c == RMul(FromInt(100), x)
             IN  Norm(RoundHalfEven(c[1], c[2]), 100)

\* int(x): truncation toward zero
Trunc(x) == IF x[1] >= 0 THEN x[1] \div x[2] ELSE -((-x[1]) \div x[2])

IMax(a, b) == IF a >= b THEN a ELSE b

---------------------------------------------------------------------------
(* datetime: calendar dates as <<year, month, day>>, and their proleptic   *)
(* Gregorian ordinals (day 1 is 0001-01-01), computed as the datetime      *)
(* module computes them                                                    *)

IsLeap(y) == (y % 4 = 0 /\ y % 100 # 0) \/ y % 400 = 0

DaysBeforeMonthTable == <<0, 31, 59, 90, 120, 151, 181, 212, 243, 273, 304, 334>>
DaysInMonthTable == <<31, 28, 31, 30, 31, 30, 31, 31, 30, 31, 30, 31>>

DaysBeforeYear(year) ==
    LET y == year - 1 IN y * 365 + (y \div 4) - (y \div 100) + (y \div 400)

DaysBeforeMonth(year, month) ==
    DaysBeforeMonthTable[month] + (IF month > 2 /\ IsLeap(year) THEN 1 ELSE 0)

Ymd2Ord(date) == DaysBeforeYear(date[1]) + DaysBeforeMonth(date[1], date[2]) + date[3]

Ord2Ymd(ordinal) ==
    LET n0 == ordinal - 1
        n400 == n0 \div 146097
        r400 == n0 % 146097
        n100 == r400 \div 36524
        r100 == r400 % 36524
        n4 == r100 \div 1461
        r4 == r100 % 1461
        n1 == r4 \div 365
        n == r4 % 365
        year == n400 * 400 + 1 + n100 * 100 + n4 * 4 + n1
        leapyear == n1 = 3 /\ (n4 # 24 \/ n100 = 3)
        month0 == (n + 50) \div 32
        preceding0 == DaysBeforeMonthTable[month0]
                        + (IF month0 > 2 /\ leapyear THEN 1 ELSE 0)
        month == IF preceding0 > n THEN month0 - 1 ELSE month0
        preceding == IF preceding0 > n
                     THEN preceding0 - (DaysInMonthTable[month]
                                          + (IF month = 2 /\ leapyear THEN 1 ELSE 0))
                     ELSE preceding0
    IN  IF n1 = 4 \/ n100 = 4 THEN <<year - 1, 12, 31>>
        ELSE <<year, month, n - preceding + 1>>

\* date + timedelta(days=n)
AddDays(date, n) == Ord2Ymd(Ymd2Ord(date) + n)

\* start_date = datetime(2020, 1, 1)
start_date == <<2020, 1, 1>>

\* mutant: the first bar is dated a day late
DateStr_OffByOne(idx) == AddDays(start_date, idx + 1)

\* date_str: the fields strftime("%Y-%m-%d") prints, for loop index idx
DateStr(idx) == AddDays(start_date, idx)

---------------------------------------------------------------------------
(* Inputs *)

\* --rows (type=int, any sign)
RowCounts == -1 .. MaxRows

\* --start-price (type=float, any sign): 100.0, 1.125, -100.0
StartPrices == {<<100, 1>>, <<9, 8>>, <<-100, 1>>}

\* --volatility: 0.0 and 5.0
Volatilities == {<<0, 1>>, <<5, 1>>}

\* --trend: 0.0 and -0.5
Trends == {<<0, 1>>, <<-1, 2>>}

\* standard-normal values z behind the four random.gauss calls of one iteration
\* (gauss(mu, sigma) returns mu + z * sigma)
ZReturn == {<<-1, 2>>, <<0, 1>>, <<1, 4>>}
ZGap == {<<-2, 1>>, <<1, 1>>}
ZRange == {<<-1, 2>>, <<1, 4>>}
ZVolume == {<<-6, 1>>, <<1, 128>>}
AllDraws == {<<zr, zg, zh, zv>> : zr \in ZReturn, zg \in ZGap, zh \in ZRange, zv \in ZVolume}

\* a smaller choice, for the runs that call more than once
FewDraws == {<<zr, zg, <<1, 4>>, zv>> : zr \in ZReturn, zg \in ZGap, zv \in ZVolume}

\* the draws of a source that returns the mean every time
MeanDraws == {<<Zero, Zero, Zero, Zero>>}

---------------------------------------------------------------------------
(* State *)

VARIABLES
    n_rows, start_price, volatility, trend,   \* the arguments of generate_ohlcv
    pc,              \* "call": about to call; "loop": at the for; "done": returned
    i,               \* loop index
    current_price,   \* carried price
    open_price, close_price,   \* locals of the last iteration
    data,            \* the list being built / returned
    stream,          \* the values the seeded random source yields, as far as read
    pos,             \* how many of them were read since the source was seeded
    calls,           \* number of calls of generate_ohlcv so far
    first            \* what the first call returned

vars == <<n_rows, start_price, volatility, trend, pc, i, current_price,
          open_price, close_price, data, stream, pos, calls, first>>

args == <<n_rows, start_price, volatility, trend>>

---------------------------------------------------------------------------
(* generate_ohlcv *)

VolumeMean == 1000000
VolumeSigma == 200000
VolumeFloor == 100000

\* volatility * 0.2 and volatility * 0.5
GapFactor == <<1, 5>>
RangeFactor == <<1, 2>>

\* value of a local that is not bound yet
NoValue == Zero

\* mutant: the draw is not scaled by sigma
Gauss_Unscaled(mu, sigma, z) == RAdd(mu, z)

\* random.gauss(mu, sigma), z the standard-normal value behind the call
Gauss(mu, sigma, z) == RAdd(mu, RMul(z, sigma))

\* the four values the next iteration reads from the random source: what the
\* seed already fixed where the stream was read before, any value otherwise
Draws(fresh) ==
    IF pos + 4 <= Len(stream) THEN {SubSeq(stream, pos + 1, pos + 4)} ELSE fresh

\* mutant: one iteration too many
LoopContinues_OffByOne == i <= n_rows

\* for i in range(n_rows)
LoopContinues == i < n_rows

\* mutant: the carried price survives from the previous call
EntryPrice_Stale == IF calls = 0 THEN start_price ELSE current_price

\* current_price = start_price
EntryPrice == start_price

\* mutant: the floor is left out
Volume_NoFloor(z) == Trunc(Gauss(FromInt(VolumeMean), FromInt(VolumeSigma), z))

\* 'Volume': max(volume, 100000), volume = int(random.gauss(1000000, 200000))
Volume(z) == IMax(Trunc(Gauss(FromInt(VolumeMean), FromInt(VolumeSigma), z)), VolumeFloor)

\* mutant: the unrounded close is written
AdjClose_Unrounded(c) == c

\* 'Adj Close': round(close_price, 2)
AdjClose(c) == Round2(c)

\* mutant: the rounded close is carried
Carried_Rounded(c) == Round2(c)

\* current_price = close_price
Carried(c) == c

\* the dict appended to data
Bar(date_str, o, h, l, c, z) ==
    ("Date" :> date_str) @@ ("Open" :> Round2(o)) @@ ("High" :> Round2(h)) @@
    ("Low" :> Round2(l)) @@ ("Close" :> Round2(c)) @@ ("Adj Close" :> AdjClose(c)) @@
    ("Volume" :> Volume(z))

\* __main__ has parsed the arguments and is about to call generate_ohlcv
InitWith(rows, trends) ==
    /\ n_rows \in rows
    /\ start_price \in StartPrices
    /\ volatility \in Volatilities
    /\ trend \in trends
    /\ pc = "call"
    /\ i = 0
    /\ current_price = NoValue
    /\ open_price = NoValue
    /\ close_price = NoValue
    /\ data = <<>>
    /\ stream = <<>>
    /\ pos = 0
    /\ calls = 0
    /\ first = <<>>

Init == InitWith(RowCounts, Trends)

\* entry of generate_ohlcv
Call ==
    /\ pc = "call"
    /\ data' = <<>>
    /\ current_price' = EntryPrice
    /\ i' = 0
    /\ open_price' = NoValue
    /\ close_price' = NoValue
    /\ calls' = calls + 1
    /\ pc' = "loop"
    /\ UNCHANGED <<args, stream, pos, first>>

\* one iteration of the loop body
Iterate(fresh) ==
    /\ pc = "loop"
    /\ LoopContinues
    /\ \E z \in Draws(fresh) :
         LET daily_return == Gauss(trend, volatility, z[1])
             o == RMul(current_price,
                       RAdd(One, Gauss(Zero, RMul(volatility, GapFactor), z[2])))
             c == RMul(o, RAdd(One, daily_return))
             intraday_range == RAbs(Gauss(Zero, RMul(volatility, RangeFactor), z[3]))
             h == RMul(RMax(o, c), RAdd(One, intraday_range))
             l == RMul(RMin(o, c), RSub(One, intraday_range))
         IN  /\ data' = Append(data, Bar(DateStr(i), o, h, l, c, z[4]))
             /\ open_price' = o
             /\ close_price' = c
             /\ current_price' = Carried(c)
             /\ stream' = IF pos + 4 <= Len(stream) THEN stream ELSE stream \o z
             /\ pos' = pos + 4
    /\ i' = i + 1
    /\ UNCHANGED <<args, pc, calls, first>>

\* range(n_rows) is exhausted: return data
Return ==
    /\ pc = "loop"
    /\ ~LoopContinues
    /\ pc' = "done"
    /\ UNCHANGED <<args, i, current_price, open_price, close_price, data,
                   stream, pos, calls, first>>

\* the caller seeds the random source as before and calls again with the
\* same arguments
Reseed ==
    /\ pc = "done"
    /\ calls < MaxCalls
    /\ first' = IF calls = 1 THEN data ELSE first
    /\ pos' = 0
    /\ pc' = "call"
    /\ UNCHANGED <<args, i, current_price, open_price, close_price, data,
                   stream, calls>>

Next ==
    \/ Call
    \/ Iterate(AllDraws)
    \/ Return

\* one call of generate_ohlcv, as __main__ makes it
Spec == Init /\ [][Next]_vars

(* Two (or more) calls with the same arguments, the random source seeded   *)
(* the same way before each.                                               *)
NextTwice ==
    \/ Call
    \/ Iterate(FewDraws)
    \/ Return
    \/ Reseed

SpecTwice == Init /\ [][NextTwice]_vars

(* Long runs against a random source that returns the mean every time,     *)
(* with no drift: the prices stay put and the dates run through the        *)
(* calendar.                                                               *)
InitDates == InitWith({0, MaxDays}, {Zero})

NextDates ==
    \/ Call
    \/ Iterate(MeanDraws)
    \/ Return

SpecDates == InitDates /\ [][NextDates]_vars

---------------------------------------------------------------------------
(* Properties *)

Bars == 1 .. Len(data)

PositiveStart == RLt(Zero, start_price)
NonNegativeVolatility == RLe(Zero, volatility)

\* the z behind the k-th random.gauss call (1: return, 2: gap, 3: range,
\* 4: volume) of the iteration that made bar b
DrawOf(b, k) == stream[4 * (b - 1) + k]

\* the day after a calendar date
DayAfter(date) ==
    LET last == IF date[2] = 2 THEN (IF IsLeap(date[1]) THEN 29 ELSE 28)
                ELSE IF date[2] \in {4, 6, 9, 11} THEN 30 ELSE 31
    IN  IF date[3] < last THEN <<date[1], date[2], date[3] + 1>>
        ELSE IF date[2] < 12 THEN <<date[1], date[2] + 1, 1>>
        ELSE <<date[1] + 1, 1, 1>>

\* C1: with a positive start_price and a non-negative volatility, every
\* emitted bar has Low <= Open <= High and Low <= Close <= High.
\* (Stated as claimed; the code violates it.)
C1_OrderingInvariant ==
    (PositiveStart /\ NonNegativeVolatility) =>
        \A b \in Bars :
            /\ RLe(data[b]["Low"], data[b]["Open"])
            /\ RLe(data[b]["Open"], data[b]["High"])
            /\ RLe(data[b]["Low"], data[b]["Close"])
            /\ RLe(data[b]["Close"], data[b]["High"])

\* C2: for every non-negative n_rows the loop appends exactly one bar per
\* iteration, makes exactly n_rows iterations, and the returned list has
\* exactly n_rows bars (none when n_rows is 0).
C2_LengthIsRowCount ==
    n_rows >= 0 =>
        /\ pc \in {"loop", "done"} => (Len(data) = i /\ i <= n_rows)
        /\ pc = "done" => (i = n_rows /\ Len(data) = n_rows)

C2_Witness == pc = "done" /\ n_rows = MaxRows /\ Len(data) = MaxRows

C4_VolumeFloor ==
    \A b \in Bars : data[b]["Volume"] \in Int /\ data[b]["Volume"] >= VolumeFloor

\* a bar whose volume draw was negative
C4_Witness ==
    \E b \in Bars :
        /\ Trunc(Gauss(FromInt(VolumeMean), FromInt(VolumeSigma), DrawOf(b, 4))) < 0
        /\ data[b]["Volume"] = VolumeFloor

\* C5: in every emitted bar 'Adj Close' equals 'Close'.
C5_AdjCloseIsClose ==
    \A b \in Bars : data[b]["Adj Close"] = data[b]["Close"]

\* a bar whose close was changed by the rounding
C5_Witness ==
    /\ pc = "loop"
    /\ i > 0
    /\ data[i]["Close"] # close_price
    /\ data[i]["Adj Close"] = data[i]["Close"]

\* C6: a call with the same arguments against the random source seeded the
\* same way returns the same bars as the first call.
C6_Deterministic ==
    (calls >= 2 /\ pc = "done") => data = first

C6_Witness ==
    /\ calls = 2
    /\ pc = "done"
    /\ volatility # Zero
    /\ Len(data) = MaxRows
    /\ data = first

\* C7: a call with a negative row count or a non-positive start_price never
\* begins generating: it produces no bar and returns no sequence.
\* (Stated as claimed; the code violates it.)
C7_ValidatedAtBoundary ==
    (n_rows < 0 \/ ~PositiveStart) => (pc # "done" /\ data = <<>>)

\* C8: with a positive start_price and a non-negative volatility every
\* emitted Open, High, Low and Close is strictly positive, and so is the
\* carried current_price.
\* (Stated as claimed; the code violates it.)
C8_PositivePrices ==
    (PositiveStart /\ NonNegativeVolatility) =>
        /\ \A b \in Bars :
              /\ RLt(Zero, data[b]["Open"])
              /\ RLt(Zero, data[b]["High"])
              /\ RLt(Zero, data[b]["Low"])
              /\ RLt(Zero, data[b]["Close"])
        /\ pc \in {"loop", "done"} => RLt(Zero, current_price)

\* C9: with volatility = 0 and trend = 0 every bar has
\* Open = Close = High = Low = round(start_price, 2).
C9_ZeroVolatilityFlat ==
    (volatility = Zero /\ trend = Zero) =>
        \A b \in Bars :
            /\ data[b]["Open"] = Round2(start_price)
            /\ data[b]["Close"] = Round2(start_price)
            /\ data[b]["High"] = Round2(start_price)
            /\ data[b]["Low"] = Round2(start_price)

\* a full series from 1.125 (which rounding changes) with non-zero draws
C9_Witness ==
    /\ pc = "done"
    /\ volatility = Zero
    /\ trend = Zero
    /\ start_price = <<9, 8>>
    /\ Len(data) = MaxRows
    /\ \A b \in Bars : DrawOf(b, 1) # Zero /\ data[b]["Close"] = <<28, 25>>

\* C10 as claimed: the price carried into the next iteration is the rounded
\* close emitted as the last bar's Close (start_price before the first bar).
C10_CarriedIsRoundedClose ==
    pc = "loop" =>
        current_price = IF i = 0 THEN start_price ELSE data[i]["Close"]

\* C10 as amended: the price carried into the next iteration is the
\* unrounded close_price = open_price * (1 + daily_return) of the last
\* iteration (start_price before the first); the bar's Close is that price
\* rounded, and the next bar's Open is round(carried * (1 + gap_noise), 2).
C10_CarriedIsUnroundedClose ==
    [][(pc = "loop" /\ pc' = "loop" /\ i' = i + 1) =>
          LET gap == Gauss(Zero, RMul(volatility, GapFactor), stream'[pos + 2])
              ret == Gauss(trend, volatility, stream'[pos + 1])
              opened == RMul(current_price, RAdd(One, gap))
          IN  /\ i = 0 => current_price = start_price
              /\ data'[i']["Open"] = Round2(opened)
              /\ current_price' = RMul(opened, RAdd(One, ret))
              /\ data'[i']["Close"] = Round2(current_price')]_vars

\* a second bar whose Open is not what the rounded Close of the first bar
\* would have given
C10_Witness ==
    /\ Len(data) >= 2
    /\ i = Len(data)
    /\ data[2]["Open"] #
          Round2(RMul(data[1]["Close"],
                      RAdd(One, Gauss(Zero, RMul(volatility, GapFactor), DrawOf(2, 2)))))

====
